---- MODULE Spec2Model ----
(***************************************************************************)
(* A model of app.py: the Streamlit back-testing page.  One run of the     *)
(* script is modelled: fetch_financial_data normalises the frame that      *)
(* yf.download returned, the main flow shows the data or the no-data       *)
(* warning, and the Execute Backtest handler constructs the Backtest,      *)
(* runs RobustStrategy over the bars and renders the results.              *)
(*                                                                         *)
(* The Backtest engine is the backtesting.py library as app.py configures  *)
(* it (cash=1_000_000, commission=0.002, exclusive_orders=True, every      *)
(* other option at its default: trade_on_close=False, no finalize_trades   *)
(* argument).  Market orders are therefore filled at the open of the bar   *)
(* that follows the one whose next() placed them.                          *)
(***************************************************************************)
EXTENDS Integers, Sequences, FiniteSets, TLC

(***************************************************************************)
(* Bounds of the model.                                                    *)
(***************************************************************************)
\* most rows of a frame that the back-test is run on
MaxBars == 6
\* most rows of a frame in the column-layout specification
MaxRows == 2
\* the strategy's periods, scaled down from the sliders' 14, 50 and 200
rsi_period == 1
sma_fast == 2
sma_slow == 3

(***************************************************************************)
(* fetch_financial_data: frames.                                           *)
(* A cell is "num" (a number) or "nan" (missing).  A frame is a sequence   *)
(* of column names and a sequence of rows, one cell per column.            *)
(***************************************************************************)
Cells == {"num", "nan"}

\* the labels an upstream frame may carry, in the order yfinance gives them
UpstreamHeads ==
  <<"Adj Close", "Close", "High", "Low", "Open", "Volume", "Dividends", "close">>

Ticker == "BTC-USD"

\* str.lower on the tokens that occur
Lower(s) ==
  CASE s = "Open" -> "open"
    [] s = "High" -> "high"
    [] s = "Low" -> "low"
    [] s = "Close" -> "close"
    [] s = "Volume" -> "volume"
    [] s = "Adj Close" -> "adj close"
    [] s = "Dividends" -> "dividends"
    [] s = "BTC-USD" -> "btc-usd"
    [] OTHER -> s

\* a column label split at its first underscore: head, and what follows it
\* Flatten MultiIndex columns: f'{col[0]}_{col[1]}'
Flatten(multi, label) ==
  IF multi THEN [head |-> label[1], rest |-> label[2], under |-> TRUE]
  ELSE [head |-> label, rest |-> "", under |-> FALSE]

\* data.columns.str.lower()
LowerLabel(l) == [head |-> Lower(l.head), rest |-> Lower(l.rest), under |-> l.under]

\* the whole string of a split label
Whole(l) == IF l.under THEN l.head \o "_" \o l.rest ELSE l.head

column_map ==
  [k \in {"open", "high", "low", "close", "volume", "adj close"} |->
     CASE k = "open" -> "Open"
       [] k = "high" -> "High"
       [] k = "low" -> "Low"
       [] k = "close" -> "Close"
       [] k = "volume" -> "Volume"
       [] k = "adj close" -> "Close"]

\* lambda x: column_map.get(x.split('_')[0], x)
RenameOne(l) == IF l.head \in DOMAIN column_map THEN column_map[l.head] ELSE Whole(l)

required_cols == <<"Open", "High", "Low", "Close", "Volume">>

EmptyFrame == [cols |-> <<>>, rows |-> <<>>]

\* the positions of the columns called nm
Positions(cols, nm) == {k \in 1..Len(cols) : cols[k] = nm}

Has(cols, nm) == Positions(cols, nm) # {}

\* data[nm] is a Series only when one column carries the name
IsSeries(cols, nm) == Cardinality(Positions(cols, nm)) = 1

Pos(cols, nm) == CHOOSE k \in Positions(cols, nm) : TRUE

\* df[name] = values: a column appended at the end
AddColumn(df, nm, vals) ==
  [cols |-> Append(df.cols, nm),
   rows |-> [r \in 1..Len(df.rows) |-> Append(df.rows[r], vals[r])]]

\* df[name] = values for a column that exists
SetColumn(df, nm, vals) ==
  [cols |-> df.cols,
   rows |-> [r \in 1..Len(df.rows) |->
               [df.rows[r] EXCEPT ![Pos(df.cols, nm)] = vals[r]]]]

\* data['Close'].shift(1).ffill(): row r holds the last number above it
ShiftFfill(df, nm) ==
  [r \in 1..Len(df.rows) |->
     IF \E q \in 1..(r - 1) : df.rows[q][Pos(df.cols, nm)] = "num"
     THEN "num" ELSE "nan"]

\* data[['Open', 'Close']].max(axis=1) and .min(axis=1): NaN cells are skipped
RowExtreme(df, names) ==
  [r \in 1..Len(df.rows) |->
     IF \E k \in 1..Len(df.cols) : df.cols[k] \in names /\ df.rows[r][k] = "num"
     THEN "num" ELSE "nan"]

\* pd.to_numeric(..., errors='coerce').fillna(1e6)
FillNa(df, nm) == [r \in 1..Len(df.rows) |-> "num"]

\* the columns data[required_cols] selects: every match of each name, in order
RECURSIVE SelectedPositions(_, _)
SelectedPositions(cols, names) ==
  IF names = <<>> THEN <<>>
  ELSE SelectSeq([k \in 1..Len(cols) |-> k], LAMBDA k : cols[k] = Head(names))
       \o SelectedPositions(cols, Tail(names))

Select(df, names) ==
  LET ps == SelectedPositions(df.cols, names)
  IN [cols |-> [k \in 1..Len(ps) |-> df.cols[ps[k]]],
      rows |-> [r \in 1..Len(df.rows) |-> [k \in 1..Len(ps) |-> df.rows[r][ps[k]]]]]

\* a faulty variant: the rows are returned without dropna()
DropNaKeep(df) == df

\* data.dropna()
DropNa(df) ==
  [cols |-> df.cols,
   rows |-> SelectSeq(df.rows, LAMBDA row : \A k \in 1..Len(row) : row[k] # "nan")]

\* the steps of the try block; each gives [err, df]
Ok(df) == [err |-> FALSE, df |-> df]
Raised == [err |-> TRUE, df |-> EmptyFrame]

StepRename(up) ==
  Ok([cols |-> [k \in 1..Len(up.cols) |->
                  RenameOne(LowerLabel(Flatten(up.multi, up.cols[k])))],
      rows |-> up.rows])

StepClose(s) ==
  IF s.err \/ ~Has(s.df.cols, "Close") THEN Raised ELSE s

StepOpen(s) ==
  IF s.err THEN s
  ELSE IF Has(s.df.cols, "Open") THEN s
  ELSE IF ~IsSeries(s.df.cols, "Close") THEN Raised
  ELSE Ok(AddColumn(s.df, "Open", ShiftFfill(s.df, "Close")))

StepHigh(s) ==
  IF s.err \/ Has(s.df.cols, "High") THEN s
  ELSE Ok(AddColumn(s.df, "High", RowExtreme(s.df, {"Open", "Close"})))

StepLow(s) ==
  IF s.err \/ Has(s.df.cols, "Low") THEN s
  ELSE Ok(AddColumn(s.df, "Low", RowExtreme(s.df, {"Open", "Close"})))

StepVolume(s) ==
  IF s.err THEN s
  ELSE LET d == IF Has(s.df.cols, "Volume") THEN s.df
                ELSE AddColumn(s.df, "Volume", [r \in 1..Len(s.df.rows) |-> "num"])
       IN IF ~IsSeries(d.cols, "Volume") THEN Raised
          ELSE Ok(SetColumn(d, "Volume", FillNa(d, "Volume")))

StepSelect(s) ==
  IF s.err THEN s
  ELSE LET d == Select(s.df, required_cols)
       IN IF Len(d.cols) # Len(required_cols) THEN Raised
          ELSE Ok([cols |-> required_cols, rows |-> d.rows])

StepDropNa(s) == IF s.err THEN s ELSE Ok(DropNa(s.df))

\* fetch_financial_data: [err, df]; on err the except branch returns pd.DataFrame()
fetch_financial_data(up) ==
  IF up.raises THEN Raised
  ELSE StepDropNa(StepSelect(StepVolume(StepLow(StepHigh(StepOpen(StepClose(
         StepRename(up))))))))

\* a faulty variant: a frame counts as empty only when it has no columns
IsEmptyColsOnly(df) == Len(df.cols) = 0

\* DataFrame.empty: an axis of length 0
IsEmpty(df) == Len(df.cols) = 0 \/ Len(df.rows) = 0

(***************************************************************************)
(* RobustStrategy.                                                         *)
(***************************************************************************)
rsi_ob == 70
rsi_os == 30

\* what talib gives inside an indicator's lookback
NaN == -1

\* a faulty variant: the oversold test lets the threshold itself through
LtOrEq(a, b) == a # NaN /\ b # NaN /\ a <= b

\* a faulty variant: NaN compared as the number that stands for it
GtRaw(a, b) == a > b

\* Python's comparisons: False when either side is NaN
Lt(a, b) == a # NaN /\ b # NaN /\ a < b
Gt(a, b) == a # NaN /\ b # NaN /\ a > b

\* talib.RSI needs rsi_period earlier deltas, talib.SMA a full window
RsiDefined(i) == i >= rsi_period
SmaDefined(w, i) == i >= w - 1

\* size=0.95, as the fraction 19/20
BuySize == [num |-> 19, den |-> 20]
\* Trade.close(): the whole trade
Whole1 == [num |-> 1, den |-> 1]

\* a faulty variant: the entry is not guarded by `if not self.position`
StrategyNextNoGuard(position, rsi, fast, slow) ==
  IF Lt(rsi, rsi_os) /\ Gt(fast, slow) THEN "buy"
  ELSE IF position /\ Gt(rsi, rsi_ob) THEN "close" ELSE "none"

\* a faulty variant: the exit is not under the else of `if not self.position`
StrategyNextCloseFlat(position, rsi, fast, slow) ==
  IF ~position /\ Lt(rsi, rsi_os) /\ Gt(fast, slow) THEN "buy"
  ELSE IF Gt(rsi, rsi_ob) THEN "close" ELSE "none"

\* RobustStrategy.next: the call it makes, if any
StrategyNext(position, rsi, fast, slow) ==
  IF ~position
  THEN IF Lt(rsi, rsi_os) /\ Gt(fast, slow) THEN "buy" ELSE "none"
  ELSE IF Gt(rsi, rsi_ob) THEN "close" ELSE "none"

(***************************************************************************)
(* The Backtest engine as app.py configures it.  The commission of 0.002   *)
(* is one part in CommissionDen; money is held in units of 1/CommissionDen *)
(* so that it is exact.                                                    *)
(***************************************************************************)
cash0 == 1000000
CommissionDen == 500
exclusive_orders == TRUE
\* a faulty variant: the Backtest is constructed with trade_on_close=True
trade_on_close_set == TRUE

\* no trade_on_close argument: the library's default
trade_on_close == FALSE

\* Broker._adjusted_price: the price with the commission, in money units
AdjustedPrice(price, long) ==
  IF long THEN price * (CommissionDen + 1) ELSE price * (CommissionDen - 1)

RECURSIVE SumEntry(_)
SumEntry(ts) ==
  IF ts = <<>> THEN 0
  ELSE Head(ts).size * AdjustedPrice(Head(ts).entry_price, TRUE) + SumEntry(Tail(ts))

RECURSIVE SumSize(_)
SumSize(ts) == IF ts = <<>> THEN 0 ELSE Head(ts).size + SumSize(Tail(ts))

\* a faulty variant: the cost of the open trades is charged twice
EquityCostTwice(st, close) ==
  st.cash + SumSize(st.trades) * close * CommissionDen - 2 * SumEntry(st.trades)

\* Broker.equity: cash plus the open trades' profit at the last close
Equity(st, close) ==
  st.cash + SumSize(st.trades) * close * CommissionDen - SumEntry(st.trades)

\* Broker.margin_available: equity less the open trades' value (leverage 1)
MarginAvailable(st) ==
  LET m == st.cash - SumEntry(st.trades) IN IF m < 0 THEN 0 ELSE m

\* int((margin_available * size) // adjusted_price) for a size below 1
Units(margin, price, size) ==
  (margin - ((margin * (size.den - size.num) + size.den - 1) \div size.den))
    \div AdjustedPrice(price, TRUE)

\* the price a market order is filled at, and the bar it is booked on
FillPrice(open, prev_close) == IF trade_on_close THEN prev_close ELSE open

Filled(o, i, b, price) ==
  [kind |-> o.kind, by |-> o.by, bar |-> o.bar, close |-> o.close,
   at |-> i, price |-> price, open |-> b.open]

\* Broker._close_trade, for every open trade
RECURSIVE CloseAll(_, _, _, _)
CloseAll(ts, cash, i, price) ==
  IF ts = <<>> THEN [cash |-> cash, closed |-> <<>>]
  ELSE LET t == Head(ts)
           rest == CloseAll(Tail(ts), cash, i, price)
       IN [cash |-> rest.cash + t.size * (AdjustedPrice(price, FALSE)
                                          - AdjustedPrice(t.entry_price, TRUE)),
           closed |-> <<[size |-> t.size, entry_bar |-> t.entry_bar,
                         entry_price |-> t.entry_price, exit_bar |-> i,
                         exit_price |-> price]>> \o rest.closed]

\* one order of Broker._process_orders on bar i, whose values are b
ProcessOrder(o, st, i, b) ==
  LET price == FillPrice(b.open, b.prev)
  IN IF o.kind = "close"
     THEN IF st.trades = <<>> THEN st
          ELSE LET c == CloseAll(st.trades, st.cash, i, price)
               IN [cash |-> c.cash, trades |-> <<>>, closed |-> st.closed \o c.closed,
                   fills |-> Append(st.fills, Filled(o, i, b, price))]
     ELSE LET units == Units(MarginAvailable(st), price, o.size)
          IN IF units = 0 \/ units * AdjustedPrice(price, TRUE) > MarginAvailable(st)
             THEN st
             ELSE [st EXCEPT
                     !.trades = Append(@, [size |-> units, entry_price |-> price,
                                           entry_bar |-> i]),
                     !.fills = Append(@, Filled(o, i, b, price))]

RECURSIVE ProcessOrders(_, _, _, _)
ProcessOrders(os, st, i, b) ==
  IF os = <<>> THEN st
  ELSE ProcessOrders(Tail(os), ProcessOrder(Head(os), st, i, b), i, b)

\* Trade.close for every open trade: the orders go to the front of the queue
CloseOrders(ts, by, i, close) ==
  [k \in 1..Len(ts) |->
     [kind |-> "close", by |-> by, bar |-> i, close |-> close, size |-> Whole1]]

\* Strategy.buy -> Broker.new_order: with exclusive_orders the pending orders are
\* cancelled and the open trades closed before the new order is queued
NewBuy(os, ts, i, close) ==
  (IF exclusive_orders THEN CloseOrders(ts, "strategy", i, close) ELSE os)
    \o <<[kind |-> "buy", by |-> "strategy", bar |-> i, close |-> close,
          size |-> BuySize]>>

\* self.position.close()
PositionClose(os, ts, i, close) == CloseOrders(ts, "strategy", i, close) \o os

PlaceIntent(intent, os, ts, i, close) ==
  CASE intent = "buy" -> NewBuy(os, ts, i, close)
    [] intent = "close" -> PositionClose(os, ts, i, close)
    [] OTHER -> os

(***************************************************************************)
(* The inputs of a run.                                                    *)
(***************************************************************************)
\* the price level of the symbol: a unit costs little, or about all the cash
Levels == {"cheap", "dear"}
Prices(level) == IF level = "cheap" THEN {2, 3} ELSE {900000, 1000000}
RsiValues == {29, 30, 70, 71}

\* subsequences of the upstream labels: the layouts yfinance may give
RECURSIVE SubSeqs(_)
SubSeqs(s) ==
  IF s = <<>> THEN {<<>>}
  ELSE LET r == SubSeqs(Tail(s)) IN r \cup {<<Head(s)>> \o t : t \in r}

Labelled(multi, heads) ==
  [k \in 1..Len(heads) |-> IF multi THEN <<heads[k], Ticker>> ELSE heads[k]]

CleanRows(n, m) == [r \in 1..m |-> [k \in 1..n |-> "num"]]

\* up to m rows of n cells: none missing, or one column missing in some rows
RowSeqs(n, m) ==
  {CleanRows(n, k) : k \in 0..m}
    \cup UNION {{[r \in 1..k |-> [c \in 1..n |->
                     IF r \in R /\ c = cc THEN "nan" ELSE "num"]] :
                  R \in SUBSET (1..k) \ {{}}, cc \in 1..n} : k \in 1..m}

\* every layout, with up to MaxRows rows
LayoutFrames ==
  UNION {{[raises |-> FALSE, multi |-> mu, cols |-> Labelled(mu, h), rows |-> rs] :
            mu \in BOOLEAN, rs \in RowSeqs(Len(h), MaxRows)} :
         h \in SubSeqs(UpstreamHeads)}

OhlcvHeads == <<"Close", "High", "Low", "Open", "Volume">>

\* the frames the back-test is run on, and one of each way to have no data
RunFrames ==
  {[raises |-> FALSE, multi |-> TRUE, cols |-> Labelled(TRUE, OhlcvHeads),
    rows |-> CleanRows(5, m)] : m \in 0..MaxBars}
  \cup {[raises |-> FALSE, multi |-> FALSE, cols |-> <<"Close", "Volume">>,
         rows |-> CleanRows(2, m)] : m \in {1, MaxBars}}
  \cup {[raises |-> TRUE, multi |-> FALSE, cols |-> <<>>, rows |-> <<>>],
        [raises |-> FALSE, multi |-> FALSE, cols |-> <<>>, rows |-> <<>>],
        [raises |-> FALSE, multi |-> TRUE,
         cols |-> Labelled(TRUE, <<"High", "Low", "Open", "Volume">>),
         rows |-> CleanRows(4, 2)],
        [raises |-> FALSE, multi |-> FALSE,
         cols |-> <<"Adj Close", "Close", "High", "Low", "Open", "Volume">>,
         rows |-> CleanRows(6, 2)],
        [raises |-> FALSE, multi |-> TRUE, cols |-> Labelled(TRUE, OhlcvHeads),
         rows |-> <<<<"nan", "num", "num", "num", "num">>,
                    <<"num", "num", "nan", "num", "num">>>>]}

(***************************************************************************)
(* The state of one run of the script.                                     *)
(***************************************************************************)
VARIABLES
  upstream,   \* what yf.download gives
  level,      \* the price level of the symbol
  finalizes,  \* whether the installed backtesting.py closes open trades at the end
  pc,         \* the script's position
  data,       \* fetch_financial_data's result
  ui,         \* the elements shown, in order
  bt,         \* whether a Backtest was constructed
  i,          \* the index of the next bar
  cur,        \* the last bar and its indicator values
  broker,     \* cash, open trades, closed trades, fills
  orders,     \* the orders waiting for the next bar
  equity,     \* the equity curve's last entry
  intents,    \* the calls next() made: kind and bar
  nextcall,   \* the last call of next(): what it saw and what it did
  results     \* the statistics of the run

vars ==
  <<upstream, level, finalizes, pc, data, ui, bt, i, cur, broker, orders, equity,
    intents, nextcall, results>>

NoBar == [open |-> 0, close |-> 0, prev |-> 0, rsi |-> NaN, fast |-> NaN, slow |-> NaN]
NoCall == [bar |-> -1, position |-> FALSE, intent |-> "none"]
NoResults == [done |-> FALSE, trades |-> 0, open |-> 0, equity |-> 0]
Broker0 == [cash |-> cash0 * CommissionDen, trades |-> <<>>, closed |-> <<>>, fills |-> <<>>]

InitFrom(frames, levels, builds) ==
  /\ upstream \in frames
  /\ level \in levels
  /\ finalizes \in builds
  /\ pc = "fetch"
  /\ data = EmptyFrame
  /\ ui = <<>>
  /\ bt = FALSE
  /\ i = 0
  /\ cur = NoBar
  /\ broker = Broker0
  /\ orders = <<>>
  /\ equity = cash0 * CommissionDen
  /\ intents = <<>>
  /\ nextcall = NoCall
  /\ results = NoResults

Init == InitFrom(RunFrames, Levels, BOOLEAN)
FetchInit == InitFrom(LayoutFrames, {"dear"}, {FALSE})

engine == <<i, cur, broker, orders, equity, intents, nextcall, results>>

\* data = fetch_financial_data(...)
Fetch ==
  /\ pc = "fetch"
  /\ LET r == fetch_financial_data(upstream)
     IN /\ data' = r.df
        /\ ui' = IF r.err THEN Append(ui, "error_data") ELSE ui
  /\ pc' = "main"
  /\ UNCHANGED <<upstream, level, finalizes, bt, engine>>

\* else: st.warning("No valid data available for backtesting")
MainEmpty ==
  /\ pc = "main"
  /\ IsEmpty(data)
  /\ ui' = Append(ui, "warning_no_data")
  /\ pc' = "done"
  /\ UNCHANGED <<upstream, level, finalizes, data, bt, engine>>

\* if not data.empty: the subheader, the date range and the last rows
MainShow ==
  /\ pc = "main"
  /\ ~IsEmpty(data)
  /\ ui' = ui \o <<"subheader", "range", "preview">>
  /\ pc' = "button"
  /\ UNCHANGED <<upstream, level, finalizes, data, bt, engine>>

\* st.button(...) is False: the run of the script ends
NoPress ==
  /\ pc = "button"
  /\ pc' = "done"
  /\ UNCHANGED <<upstream, level, finalizes, data, ui, bt, engine>>

\* st.button(...) is True: bt = Backtest(data, RobustStrategy, ...)
Construct ==
  /\ pc = "button"
  /\ bt' = TRUE
  /\ pc' = "run"
  /\ UNCHANGED <<upstream, level, finalizes, data, ui, engine>>

\* the indicator values of bar k: NaN inside the lookback
BarOf(k, open, close, prev, rsi, fast, slow) ==
  [open |-> open, close |-> close, prev |-> prev,
   rsi |-> IF RsiDefined(k) THEN rsi ELSE NaN,
   fast |-> IF SmaDefined(sma_fast, k) THEN fast ELSE NaN,
   slow |-> IF SmaDefined(sma_slow, k) THEN slow ELSE NaN]

\* Broker.next on bar k: the waiting orders are filled, the equity is recorded
BrokerNext(st, os, k, b) == ProcessOrders(os, st, k, b)

\* bt.run: one bar.  broker.next(), then strategy.next().  The library starts
\* to call next() after the indicators' warm-up; here it is called on every bar,
\* which adds no order as long as next() places nothing inside the lookback.
Bar ==
  /\ pc = "run"
  /\ i < Len(data.rows)
  /\ \E open \in Prices(level), close \in Prices(level), rsi \in RsiValues,
        fast \in Prices(level), slow \in Prices(level) :
       LET b == BarOf(i, open, close, cur.close, rsi, fast, slow)
           st == BrokerNext(broker, orders, i, b)
           position == st.trades # <<>>
           intent == StrategyNext(position, b.rsi, b.fast, b.slow)
       IN /\ cur' = b
          /\ broker' = st
          /\ equity' = Equity(st, close)
          /\ orders' = PlaceIntent(intent, <<>>, st.trades, i, close)
          /\ intents' = IF intent = "none" THEN intents
                        ELSE Append(intents, [kind |-> intent, bar |-> i,
                                              position |-> position])
          /\ nextcall' = [bar |-> i, position |-> position, intent |-> intent]
  /\ i' = i + 1
  /\ UNCHANGED <<upstream, level, finalizes, pc, data, ui, bt, results>>

\* the statistics bt.run computes from the closed trades and the equity curve
Stats(st, eq) ==
  [done |-> TRUE, trades |-> Len(st.closed), open |-> Len(st.trades), equity |-> eq]

\* bt.run after the last bar.  A library that finalizes closes the open trades and
\* runs the broker once more on the last bar; the current one (no finalize_trades
\* argument) leaves them open and out of the statistics.
EndRun ==
  /\ pc = "run"
  /\ i = Len(data.rows)
  /\ IF finalizes /\ Len(data.rows) > 0
     THEN LET os == CloseOrders(broker.trades, "engine", i - 1, cur.close) \o orders
              st == BrokerNext(broker, os, i - 1, cur)
          IN /\ broker' = st
             /\ orders' = <<>>
             /\ equity' = Equity(st, cur.close)
             /\ results' = Stats(st, Equity(st, cur.close))
     ELSE /\ results' = Stats(broker, equity)
          /\ UNCHANGED <<broker, orders, equity>>
  /\ pc' = "success"
  /\ UNCHANGED <<upstream, level, finalizes, data, ui, bt, i, cur, intents, nextcall>>

\* st.success("Backtest Completed Successfully")
ShowSuccess ==
  /\ pc = "success"
  /\ ui' = Append(ui, "success")
  /\ pc' = "metrics"
  /\ UNCHANGED <<upstream, level, finalizes, data, bt, engine>>

\* the six st.metric calls
ShowMetrics ==
  /\ pc = "metrics"
  /\ ui' = ui \o <<"return", "max_dd", "sharpe", "trades", "win_rate", "profit_factor">>
  /\ pc' = "plot"
  /\ UNCHANGED <<upstream, level, finalizes, data, bt, engine>>

\* fig = bt.plot(resample=False)
Plot ==
  /\ pc = "plot"
  /\ pc' = "chart"
  /\ UNCHANGED <<upstream, level, finalizes, data, ui, bt, engine>>

\* st.bokeh_chart(fig, ...)
ShowChart ==
  /\ pc = "chart"
  /\ ui' = Append(ui, "chart")
  /\ pc' = "table"
  /\ UNCHANGED <<upstream, level, finalizes, data, bt, engine>>

\* the Trade Analysis expander: st.dataframe(trades.style.format(...))
ShowTrades ==
  /\ pc = "table"
  /\ ui' = Append(ui, "trade_table")
  /\ pc' = "done"
  /\ UNCHANGED <<upstream, level, finalizes, data, bt, engine>>

\* the steps of the try block that render through Bokeh and the Styler
MayRaise == {"plot", "chart", "table"}

\* except Exception as e: st.error(f"Backtest Error: {str(e)}")
HandlerRaises ==
  /\ pc \in MayRaise
  /\ ui' = Append(ui, "error_backtest")
  /\ pc' = "done"
  /\ UNCHANGED <<upstream, level, finalizes, data, bt, engine>>

Next ==
  \/ Fetch
  \/ MainEmpty
  \/ MainShow
  \/ NoPress
  \/ Construct
  \/ Bar
  \/ EndRun
  \/ ShowSuccess
  \/ ShowMetrics
  \/ Plot
  \/ ShowChart
  \/ ShowTrades
  \/ HandlerRaises

Spec == Init /\ [][Next]_vars

\* the column layouts: the fetch and the branch of the main flow
FetchNext ==
  \/ Fetch
  \/ MainEmpty
  \/ MainShow

FetchSpec == FetchInit /\ [][FetchNext]_vars

\* the runs under the library as installed today: no finalize_trades argument,
\* so open trades are not closed when the run ends
CurrentInit == InitFrom(RunFrames, Levels, {FALSE})

CurrentSpec == CurrentInit /\ [][Next]_vars

(***************************************************************************)
(* The claims.                                                             *)
(***************************************************************************)
Range(q) == {q[k] : k \in 1..Len(q)}

\* the elements of a complete result
ResultElements ==
  {"success", "return", "max_dd", "sharpe", "trades", "win_rate", "profit_factor",
   "chart", "trade_table"}

\* C1: at most one position is open at any time, and the bar ranges of the
\* trades in the trade log are disjoint: each trade is entered after the trade
\* before it was exited.
C1_Exclusive ==
  /\ Len(broker.trades) <= 1
  /\ \A a \in 1..Len(broker.closed) :
       /\ broker.closed[a].entry_bar <= broker.closed[a].exit_bar
       /\ \A b \in (a + 1)..Len(broker.closed) :
            broker.closed[a].exit_bar < broker.closed[b].entry_bar

\* two trades in the log, the second entered after the first was exited
C1_Witness ==
  /\ Len(broker.closed) = 2
  /\ broker.closed[1].exit_bar < broker.closed[2].entry_bar

\* C2: a call of next() places at most one order: a buy of 0.95 exactly when no
\* position is open, RSI < rsi_os and fast SMA > slow SMA; a close exactly when a
\* position is open and RSI > rsi_ob; otherwise nothing.
C2_Decision ==
  nextcall.bar >= 0 =>
    LET buys == /\ ~nextcall.position
                /\ cur.rsi # NaN /\ cur.rsi < rsi_os
                /\ cur.fast # NaN /\ cur.slow # NaN /\ cur.fast > cur.slow
        closes == nextcall.position /\ cur.rsi # NaN /\ cur.rsi > rsi_ob
    IN /\ nextcall.intent = (IF buys THEN "buy" ELSE IF closes THEN "close" ELSE "none")
       /\ pc = "run" =>
            /\ Len(orders) = (IF nextcall.intent = "none" THEN 0 ELSE 1)
            /\ \A k \in 1..Len(orders) :
                 /\ orders[k].kind = nextcall.intent
                 /\ orders[k].bar = nextcall.bar
                 /\ orders[k].kind = "buy" =>
                      orders[k].size.num * 100 = 95 * orders[k].size.den

\* a close was placed on a bar where the fast SMA is above the slow one
C2_Witness ==
  /\ pc = "run"
  /\ nextcall.intent = "close"
  /\ cur.rsi = 71
  /\ cur.fast > cur.slow

\* C3 as stated: every order of the strategy is filled on the bar that placed it,
\* at that bar's close.
C3_SameBarClose ==
  \A f \in Range(broker.fills) :
    f.by = "strategy" => f.at = f.bar /\ f.price = f.close

\* C3 as amended: every fill of an order of the strategy is at the open of the
\* bar it is booked on, which is the bar after the one that placed it; a library
\* that runs the broker once more after the last bar fills an order of the last
\* bar at that bar's open.
C3_NextBarOpen ==
  \A f \in Range(broker.fills) :
    f.by = "strategy" =>
      /\ f.price = f.open
      /\ \/ f.at = f.bar + 1
         \/ finalizes /\ f.at = f.bar /\ f.bar = Len(data.rows) - 1

\* an order filled one bar later at an open that differs from its bar's close
C3_Witness ==
  \E f \in Range(broker.fills) :
    f.by = "strategy" /\ f.at = f.bar + 1 /\ f.price # f.close /\ f.price = f.open

\* C4 as stated: when the statistics are computed no position is open, every
\* position that was opened is a trade of the log, and a position closed by the
\* engine after the last bar was closed at that bar's close.
C4_ForceClosed ==
  results.done =>
    /\ broker.trades = <<>>
    /\ results.open = 0
    /\ Cardinality({k \in 1..Len(broker.fills) : broker.fills[k].kind = "buy"})
         = results.trades
    /\ \A f \in Range(broker.fills) : f.by = "engine" => f.price = cur.close

\* C5 as stated: an error of the handler is never shown after output of a
\* successful run.
C5_AllOrNothing ==
  "error_backtest" \in Range(ui) => Range(ui) \cap ResultElements = {}

\* C6: with an empty frame no Backtest is constructed, no result is shown, and
\* the run of the script ends with the no-data warning, after the data error if
\* the fetch raised.
C6_NoData ==
  (pc # "fetch" /\ (Len(data.rows) = 0 \/ Len(data.cols) = 0)) =>
    /\ ~bt
    /\ ~results.done
    /\ Range(ui) \subseteq {"error_data", "warning_no_data"}
    /\ pc = "done" => ui[Len(ui)] = "warning_no_data"
    /\ pc \in {"main", "done"}

\* every row of a frame with a Close column was dropped, and the script ended
C6_Witness ==
  /\ pc = "done"
  /\ Len(data.rows) = 0
  /\ ~upstream.raises
  /\ Len(upstream.rows) = 2
  /\ Len(upstream.cols) = 5
  /\ ui = <<"warning_no_data">>

\* C7: a non-empty frame from fetch_financial_data has exactly the columns Open,
\* High, Low, Close, Volume, in that order, and no missing cell.
C7_Normalized ==
  (pc # "fetch" /\ Len(data.rows) > 0 /\ Len(data.cols) > 0) =>
    /\ data.cols = <<"Open", "High", "Low", "Close", "Volume">>
    /\ \A r \in 1..Len(data.rows) :
         /\ Len(data.rows[r]) = 5
         /\ \A k \in 1..5 : data.rows[r][k] = "num"

\* a frame that came with a flattened Close column only and a missing cell
C7_Witness ==
  /\ pc = "main"
  /\ Len(data.rows) = 1
  /\ upstream.multi
  /\ Len(upstream.cols) = 1
  /\ Len(upstream.rows) = 2

\* C8: on a bar where RSI, the fast SMA or the slow SMA is undefined, next()
\* places nothing.
C8_Lookback ==
  (nextcall.bar >= 0 /\ (cur.rsi = NaN \/ cur.fast = NaN \/ cur.slow = NaN)) =>
    /\ nextcall.intent = "none"
    /\ pc = "run" => orders = <<>>

\* RSI is oversold and the fast SMA is defined while the slow SMA is not
C8_Witness ==
  /\ nextcall.bar >= 0
  /\ cur.rsi = 29
  /\ cur.fast # NaN
  /\ cur.slow = NaN
  /\ nextcall.intent = "none"

C10_Alternate ==
  \A k \in 1..Len(intents) :
    intents[k].kind = (IF k % 2 = 1 THEN "buy" ELSE "close")

\* C10 as amended: a buy is placed only while no position is open and with the
\* fraction 0.95, a close only while a position is open; the first order is a
\* buy and no two closes follow each other.  Two buys follow each other when the
\* first was cancelled because the cash did not pay for one unit.
C10_NeverRejected ==
  /\ \A k \in 1..Len(intents) :
       /\ intents[k].kind = "buy" => ~intents[k].position
       /\ intents[k].kind = "close" => intents[k].position
       /\ intents[k].kind = "close" => k > 1 /\ intents[k - 1].kind = "buy"
  /\ \A o \in Range(orders) :
       o.kind = "buy" => 0 < o.size.num /\ o.size.num <= o.size.den

\* a buy that was cancelled, and the buy that followed it
C10_Witness ==
  /\ Len(intents) >= 2
  /\ intents[1].kind = "buy"
  /\ intents[2].kind = "buy"
  /\ intents[2].bar = intents[1].bar + 1
====
